---- MODULE Spec2Model ----
(***************************************************************************)
(* Model of server/models.py (the Movie table) and server/seed.py (the     *)
(* make_movies seed routine) running against a transactional relational    *)
(* store through a SQLAlchemy session.                                     *)
(*                                                                         *)
(* A session issues its statements inside one transaction: the bulk        *)
(* DELETE of line 16 and the INSERTs flushed by the commit of line 24      *)
(* become visible in the committed table together, at the commit.          *)
(***************************************************************************)
EXTENDS Integers, Sequences, FiniteSets

\* ---------------------------------------------------------------- bounds

\* Number of rows that may already be in the table before the first run.
MaxPre == 2
\* Number of make_movies runs executed one after another.
MaxRuns == 2
\* Number of distinct seeds of the sentence generator.
NumSeeds == 2

\* ------------------------------------------------------------- constants

\* range(50)
NumMovies == 50
\* the value of Movie.id before the storage layer has assigned one (None)
NoId == 0

Runs == 1..MaxRuns
\* the two instances of the routine that run at the same time
Pair == {1, 2}
Seeds == 0..(NumSeeds - 1)

NoError == "None"
StorageError == "OperationalError"

VARIABLES
    table,      \* the committed rows of the movies table
    seq,        \* the storage layer's id sequence: the highest id ever handed out
    pc,         \* pc[p]: where run p is in make_movies
    i,          \* i[p]: iterations of the for loop completed by run p
    movies,     \* movies[p]: the list built by run p
    session,    \* session[p]: db.session of run p: its open transaction
    rng,        \* rng[p]: the state fake = Faker() was seeded with
    err,        \* err[p]: the exception run p ended with
    pre,        \* pre[p]: the committed table when run p started
    diedAt,     \* diedAt[p]: the statement at which run p failed or crashed
    removed     \* removed[p]: the rows the DELETE of run p matched

vars == <<table, seq, pc, i, movies, session, rng, err, pre, diedAt, removed>>

\* ------------------------------------------------------------ pure parts

Max(a, b) == IF a >= b THEN a ELSE b

IsCased(c) == c \in {"a", "b", "A", "B"}

ToUpper(c) == CASE c = "a" -> "A" [] c = "b" -> "B" [] OTHER -> c

ToLower(c) == CASE c = "A" -> "a" [] c = "B" -> "b" [] OTHER -> c

\* str.title(): a cased character is upper-cased when it starts a word (the
\* character before it is uncased) and lower-cased otherwise.
title(s) ==
    [k \in 1..Len(s) |->
        IF IsCased(s[k])
        THEN IF k > 1 /\ IsCased(s[k - 1]) THEN ToLower(s[k]) ELSE ToUpper(s[k])
        ELSE s[k]]

\* What the sentence generator can return: a capitalised first word, lower
\* case words after it, a full stop at the end; about four words.
Sentences ==
    << <<"A", "b", " ", "b", " ", "a", "b", " ", "a", ".">>,
       <<"B", " ", "a", "a", " ", "b", ".">>,
       <<"A", " ", "b", "a", " ", "a", " ", "b", " ", "b", ".">> >>

\* fake.sentence(nb_words=4): the k-th draw of a generator seeded with s.
\* Two draws may return the same sentence.
fake_sentence(s, k) == Sentences[((s + k * (s + 1)) % Len(Sentences)) + 1]

\* Faulty variant of Movie: the constructor sets an id.
MovieEager(t) == [id |-> 1, title |-> t]

\* Movie(title=...): a transient instance; id is not set by the constructor.
Movie(t) == [id |-> NoId, title |-> t]

\* Faulty variant of to_dict: the title column is serialized empty.
to_dictNoTitle(m) == [id |-> m.id, title |-> <<>>]

\* SerializerMixin.to_dict(): the declared columns of the instance.
to_dict(m) == [id |-> m.id, title |-> m.title]

MaxId(rows) == IF rows = {} THEN 0 ELSE CHOOSE n \in {r.id : r \in rows} :
                                          \A r \in rows : r.id <= n

\* The rows run p's transaction still sees: the committed rows less the ones
\* its own DELETE removed.
Remaining(p) == table \ session[p].deleted

\* The ids an autoincrement integer primary key may start after: the highest
\* id of the rows left in the table (a rowid alias) or the highest id ever
\* handed out (a sequence).
IdBases(p) == {MaxId(Remaining(p)), Max(seq, MaxId(Remaining(p)))}

\* Faulty variant of NewRows: every row gets the same id.
NewRowsSameId(p, base) ==
    {[id |-> base + 1, title |-> session[p].new[k].title, run |-> p, idx |-> k - 1]
        : k \in 1..Len(session[p].new)}

\* The rows the flush inserts for the pending instances, in list order.
NewRows(p, base) ==
    {[id |-> base + k, title |-> session[p].new[k].title, run |-> p, idx |-> k - 1]
        : k \in 1..Len(session[p].new)}

EmptySession == [deleted |-> {}, new |-> <<>>]

Terminated(p) == pc[p] \in {"done", "failed", "crashed"}

\* ---------------------------------------------------------------- Init

PreRows(n) ==
    {[id |-> k, title |-> title(Sentences[(k % Len(Sentences)) + 1]), run |-> 0, idx |-> k]
        : k \in 1..n}

Init ==
    /\ \E n \in 0..MaxPre : table = PreRows(n) /\ seq = n
    /\ pc = [p \in Runs |-> "idle"]
    /\ i = [p \in Runs |-> 0]
    /\ movies = [p \in Runs |-> <<>>]
    /\ session = [p \in Runs |-> EmptySession]
    /\ rng = [p \in Runs |-> 0]
    /\ err = [p \in Runs |-> NoError]
    /\ pre = [p \in Runs |-> {}]
    /\ diedAt = [p \in Runs |-> "none"]
    /\ removed = [p \in Runs |-> {}]

\* -------------------------------------------------------------- actions

\* python seed.py: enter the application context and call make_movies().
Enter(p) ==
    /\ pc[p] = "idle"
    /\ pc' = [pc EXCEPT ![p] = "delete"]
    /\ \E s \in Seeds : rng' = [rng EXCEPT ![p] = s]
    /\ pre' = [pre EXCEPT ![p] = table]
    /\ UNCHANGED <<table, seq, i, movies, session, err, diedAt, removed>>

\* One run after another: run p starts when every earlier run has ended.
Start(p) ==
    /\ \A q \in Runs : q < p => Terminated(q)
    /\ Enter(p)

\* Two instances at once: either of the pair starts whenever it likes.
StartConcurrent(p) ==
    /\ p \in Pair
    /\ Enter(p)

\* Faulty variant of Delete: the DELETE matches no row.
DeleteNothing(p) ==
    /\ pc[p] = "delete"
    /\ session' = [session EXCEPT ![p].deleted = {}]
    /\ pc' = [pc EXCEPT ![p] = "loop"]
    /\ UNCHANGED <<table, seq, i, movies, rng, err, pre, diedAt>>
    /\ removed' = [removed EXCEPT ![p] = {}]

\* Faulty variant of Delete: the DELETE is committed on its own.
DeleteAutocommit(p) ==
    /\ pc[p] = "delete"
    /\ table' = {}
    /\ session' = [session EXCEPT ![p].deleted = {}]
    /\ pc' = [pc EXCEPT ![p] = "loop"]
    /\ UNCHANGED <<seq, i, movies, rng, err, pre, diedAt>>
    /\ removed' = [removed EXCEPT ![p] = table]

\* Faulty variant of Delete: a filter leaves the row with id 1 in place.
DeleteFiltered(p) ==
    /\ pc[p] = "delete"
    /\ session' = [session EXCEPT ![p].deleted = {r \in table : r.id > 1}]
    /\ pc' = [pc EXCEPT ![p] = "loop"]
    /\ UNCHANGED <<table, seq, i, movies, rng, err, pre, diedAt>>
    /\ removed' = [removed EXCEPT ![p] = {r \in table : r.id > 1}]

\* Movie.query.delete(): DELETE FROM movies, inside the session's transaction.
Delete(p) ==
    /\ pc[p] = "delete"
    /\ session' = [session EXCEPT ![p].deleted = table]
    /\ pc' = [pc EXCEPT ![p] = "loop"]
    /\ UNCHANGED <<table, seq, i, movies, rng, err, pre, diedAt>>
    /\ removed' = [removed EXCEPT ![p] = table]

\* Faulty variant of DeleteFail: the exception is caught and the routine goes on.
DeleteFailSwallowed(p) ==
    /\ pc[p] = "delete"
    /\ err' = [err EXCEPT ![p] = StorageError]
    /\ diedAt' = [diedAt EXCEPT ![p] = "delete"]
    /\ pc' = [pc EXCEPT ![p] = "loop"]
    /\ UNCHANGED <<table, seq, i, movies, session, rng, pre, removed>>

\* Movie.query.delete() raises: nothing catches it, the script ends and the
\* application context rolls the session back.
DeleteFail(p) ==
    /\ pc[p] = "delete"
    /\ err' = [err EXCEPT ![p] = StorageError]
    /\ diedAt' = [diedAt EXCEPT ![p] = "delete"]
    /\ pc' = [pc EXCEPT ![p] = "failed"]
    /\ session' = [session EXCEPT ![p] = EmptySession]
    /\ UNCHANGED <<table, seq, i, movies, rng, pre, removed>>

\* One iteration of for i in range(50): build a Movie and append it.
Generate(p) ==
    /\ pc[p] = "loop"
    /\ i[p] < NumMovies
    /\ movies' = [movies EXCEPT ![p] =
                    Append(@, Movie(title(fake_sentence(rng[p], i[p]))))]
    /\ i' = [i EXCEPT ![p] = @ + 1]
    /\ pc' = [pc EXCEPT ![p] = IF i[p] + 1 = NumMovies THEN "add_all" ELSE "loop"]
    /\ UNCHANGED <<table, seq, session, rng, err, pre, diedAt, removed>>

\* db.session.add_all(movies): the instances become pending in the session.
AddAll(p) ==
    /\ pc[p] = "add_all"
    /\ session' = [session EXCEPT ![p].new = movies[p]]
    /\ pc' = [pc EXCEPT ![p] = "commit"]
    /\ UNCHANGED <<table, seq, i, movies, rng, err, pre, diedAt, removed>>

\* Faulty variant of Commit: the commit inserts and leaves the DELETE out.
CommitKeep(p) ==
    /\ pc[p] = "commit"
    /\ \E base \in {Max(seq, MaxId(table))} :
        /\ table' = table \cup NewRows(p, base)
        /\ seq' = Max(seq, base + Len(session[p].new))
        /\ movies' = [movies EXCEPT ![p] =
                        [k \in 1..Len(@) |-> [@[k] EXCEPT !.id = base + k]]]
    /\ session' = [session EXCEPT ![p] = EmptySession]
    /\ pc' = [pc EXCEPT ![p] = "done"]
    /\ UNCHANGED <<i, rng, err, pre, diedAt, removed>>

\* Faulty variant of Commit: the DELETE is evaluated at the commit.
CommitDeleteNow(p) ==
    /\ pc[p] = "commit"
    /\ \E base \in IdBases(p) :
        /\ table' = NewRows(p, base)
        /\ seq' = Max(seq, base + Len(session[p].new))
        /\ movies' = [movies EXCEPT ![p] =
                        [k \in 1..Len(@) |-> [@[k] EXCEPT !.id = base + k]]]
    /\ session' = [session EXCEPT ![p] = EmptySession]
    /\ pc' = [pc EXCEPT ![p] = "done"]
    /\ UNCHANGED <<i, rng, err, pre, diedAt, removed>>

\* db.session.commit(): flush the pending instances (the storage layer
\* assigns their ids) and commit the transaction: the DELETE and the INSERTs
\* take effect on the committed table at once.
Commit(p) ==
    /\ pc[p] = "commit"
    /\ \E base \in IdBases(p) :
        /\ table' = Remaining(p) \cup NewRows(p, base)
        /\ seq' = Max(seq, base + Len(session[p].new))
        /\ movies' = [movies EXCEPT ![p] =
                        [k \in 1..Len(@) |-> [@[k] EXCEPT !.id = base + k]]]
    /\ session' = [session EXCEPT ![p] = EmptySession]
    /\ pc' = [pc EXCEPT ![p] = "done"]
    /\ UNCHANGED <<i, rng, err, pre, diedAt, removed>>

\* Faulty variant of CommitFail: a failed commit leaves a row behind.
CommitFailPartial(p) ==
    /\ pc[p] = "commit"
    /\ table' = table \cup {r \in NewRows(p, Max(seq, MaxId(table))) : r.idx = 0}
    /\ seq' = seq
    /\ err' = [err EXCEPT ![p] = StorageError]
    /\ diedAt' = [diedAt EXCEPT ![p] = "commit"]
    /\ pc' = [pc EXCEPT ![p] = "failed"]
    /\ session' = [session EXCEPT ![p] = EmptySession]
    /\ UNCHANGED <<i, movies, rng, pre, removed>>

\* db.session.commit() raises: the transaction is rolled back as a whole
\* (the sequence may already have advanced), nothing catches the exception.
CommitFail(p) ==
    /\ pc[p] = "commit"
    /\ seq' \in {seq, Max(seq, MaxId(Remaining(p))) + Len(session[p].new)}
    /\ err' = [err EXCEPT ![p] = StorageError]
    /\ diedAt' = [diedAt EXCEPT ![p] = "commit"]
    /\ pc' = [pc EXCEPT ![p] = "failed"]
    /\ session' = [session EXCEPT ![p] = EmptySession]
    /\ UNCHANGED <<table, i, movies, rng, pre, removed>>

\* The process dies inside make_movies (killed, power loss): its memory and
\* its connection are gone and the store rolls its open transaction back.
Crash(p) ==
    /\ pc[p] \in {"delete", "loop", "add_all", "commit"}
    /\ diedAt' = [diedAt EXCEPT ![p] = pc[p]]
    /\ pc' = [pc EXCEPT ![p] = "crashed"]
    /\ i' = [i EXCEPT ![p] = 0]
    /\ movies' = [movies EXCEPT ![p] = <<>>]
    /\ rng' = [rng EXCEPT ![p] = 0]
    /\ session' = [session EXCEPT ![p] = EmptySession]
    /\ UNCHANGED <<table, seq, err, pre, removed>>

\* ------------------------------------------------------- specifications

Next ==
    \E p \in Runs :
        \/ Start(p)
        \/ Delete(p)
        \/ DeleteFail(p)
        \/ Generate(p)
        \/ AddAll(p)
        \/ Commit(p)
        \/ CommitFail(p)
        \/ Crash(p)

\* Runs of make_movies one after another.
Spec == Init /\ [][Next]_vars

NextConcurrent ==
    \E p \in Pair :
        \/ StartConcurrent(p)
        \/ Delete(p)
        \/ DeleteFail(p)
        \/ Generate(p)
        \/ AddAll(p)
        \/ Commit(p)
        \/ CommitFail(p)

\* Two instances of make_movies against the same store at the same time.
SpecConcurrent == Init /\ [][NextConcurrent]_vars

\* --------------------------------------------------------------- claims

RowsOf(p) == {r \in table : r.run = p}

\* Run p is the last run that committed.
LastDone(p) == pc[p] = "done" /\ \A q \in Runs : q > p => pc[q] # "done"

AfterDelete(p) == diedAt[p] \in {"loop", "add_all", "commit"}

\* C1: whatever the table held before (nothing, a few rows, a previous run's
\* 50 rows), once a run of make_movies has committed, the table holds exactly
\* 50 rows.
SuccessfulRunLeavesFifty ==
    (\E p \in Runs : pc[p] = "done") => Cardinality(table) = NumMovies

\* A run has committed on a table that held one or two rows before it.
SeededOverOldRows ==
    \E p \in Runs : /\ pc[p] = "done"
                     /\ pre[p] # {}
                     /\ Cardinality(pre[p]) < NumMovies

\* C2: when runs follow one another, rows do not pile up: after a run that
\* committed and a later run that ended, the table holds at most 50 rows, and
\* when the later run committed too, none of the earlier run's rows is left.
NoAccumulation ==
    \A p, q \in Runs :
        (p < q /\ pc[p] = "done" /\ Terminated(q)) =>
            /\ Cardinality(table) <= NumMovies
            /\ pc[q] = "done" => RowsOf(p) = {}

\* Two runs in succession have both committed.
TwoRunsCommitted ==
    \E p, q \in Runs : /\ p < q
                        /\ pc[p] = "done"
                        /\ pc[q] = "done"
                        /\ Cardinality(pre[q]) = NumMovies

\* C3: the batch is inserted as a whole or not at all: the committed table
\* never holds some but not all of a run's 50 rows, and holds none of them
\* after the run's commit failed.
BatchAllOrNothing ==
    \A p \in Runs :
        /\ Cardinality(RowsOf(p)) \in {0, NumMovies}
        /\ pc[p] = "failed" => RowsOf(p) = {}

\* The commit of a run with 50 pending instances has failed.
CommitHasFailed ==
    \E p \in Runs : /\ pc[p] = "failed"
                     /\ diedAt[p] = "commit"
                     /\ Len(movies[p]) = NumMovies

\* C4: in the committed table no row has a null id and no two rows share an
\* id; a run that committed on an empty table left 50 rows with 50 distinct
\* ids.
UniqueIds ==
    /\ \A r \in table : r.id # NoId
    /\ Cardinality({r.id : r \in table}) = Cardinality(table)
    /\ \A p \in Runs :
        (pc[p] = "done" /\ pre[p] = {} /\ RowsOf(p) # {}) =>
            Cardinality({r.id : r \in RowsOf(p)}) = NumMovies

\* A run has committed on an empty table and its rows are in the table.
SeededEmptyTable ==
    \E p \in Runs : pc[p] = "done" /\ pre[p] = {} /\ RowsOf(p) # {}

\* C5: a storage failure ends the routine at once with the error raised: a
\* run that has an error is in the failed state, a run that failed at the
\* delete built no instance and left nothing pending, and a failed run takes
\* no further step, is not retried and never becomes successful.
FailurePropagates ==
    [][\A p \in Runs :
        /\ err'[p] # NoError => pc'[p] = "failed"
        /\ (pc'[p] = "failed" /\ diedAt'[p] = "delete") =>
                (movies'[p] = <<>> /\ i'[p] = 0 /\ session'[p] = EmptySession)
        /\ pc[p] = "failed" =>
                /\ pc'[p] = "failed"
                /\ err'[p] = err[p]
                /\ i'[p] = i[p]
                /\ movies'[p] = movies[p]
                /\ session'[p] = session[p]
                /\ RowsOf(p) = {}]_vars

\* One run has failed at the delete and another at the commit.
BothStepsHaveFailed ==
    \E p, q \in Runs : /\ pc[p] = "failed" /\ diedAt[p] = "delete"
                        /\ pc[q] = "failed" /\ diedAt[q] = "commit"

CrashLeavesOldRowsDeleted ==
    \A p \in Runs :
        (pc[p] = "crashed" /\ AfterDelete(p) /\ pre[p] # {}) =>
            (pre[p] \cap table = {} /\ RowsOf(p) = {})

\* C7, amended: after a crash between the delete and the end of the commit,
\* and until a later run starts, the committed table is the table the run
\* found: the delete was part of the transaction that never committed.
CrashKeepsCommittedTable ==
    \A p \in Runs :
        (pc[p] = "crashed" /\ AfterDelete(p) /\ \A q \in Runs : q > p => pc[q] = "idle") =>
            table = pre[p]

\* A run has crashed after its delete on a table that held rows.
CrashedAfterDelete ==
    \E p \in Runs : pc[p] = "crashed" /\ AfterDelete(p) /\ pre[p] # {}

\* C8: two instances at the same time: once both have committed, the table
\* holds 50 or 100 rows, and it holds 100 exactly when neither DELETE matched
\* a row of the other instance (both deletes came before both commits, or one
\* before the other's commit): 50 rows are not guaranteed.
ConcurrentRunsMayDouble ==
    (\A p \in Pair : pc[p] = "done") =>
        /\ Cardinality(table) \in {NumMovies, 2 * NumMovies}
        /\ Cardinality(table) = 2 * NumMovies <=>
                \A p \in Pair : \A r \in removed[p] : r.run \notin Pair

\* Both instances have committed and the table holds 100 rows.
BothCommittedHundredRows ==
    /\ \A p \in Pair : pc[p] = "done"
    /\ Cardinality(table) = 2 * NumMovies

\* C9: after the last run that committed, every row of the table was made by
\* that run and no row the run found in the table is still there.
AllRowsNew ==
    \A p \in Runs :
        LastDone(p) => (table = RowsOf(p) /\ table \cap pre[p] = {})

\* The last run that committed found a previous run's 50 rows.
ReseededOverPreviousRun ==
    \E p \in Runs : LastDone(p) /\ Cardinality(pre[p]) = NumMovies

\* C10: an instance has no id while it is in the list or pending in the
\* session; the commit gives each instance its id and stores it under that id
\* with its title; and no step changes a stored row: a row is in the table
\* unchanged or it is gone.
IdAssignedAtCommit ==
    [][/\ \A p \in Runs :
            /\ pc'[p] \in {"idle", "delete", "loop", "add_all", "commit"} =>
                    /\ \A k \in 1..Len(movies'[p]) : movies'[p][k].id = NoId
                    /\ \A k \in 1..Len(session'[p].new) : session'[p].new[k].id = NoId
            /\ (pc[p] = "commit" /\ pc'[p] = "done") =>
                    \A k \in 1..Len(movies[p]) :
                        /\ movies'[p][k].id # NoId
                        /\ [id |-> movies'[p][k].id, title |-> movies[p][k].title,
                            run |-> p, idx |-> k - 1] \in table'
       /\ Cardinality({<<r.run, r.idx>> : r \in table \cup table'})
            = Cardinality(table \cup table')]_vars

\* A run has committed and its instances carry the ids of its stored rows.
InstancesHaveStoredIds ==
    \E p \in Runs :
        /\ pc[p] = "done"
        /\ {m.id : m \in {movies[p][k] : k \in 1..Len(movies[p])}} = {r.id : r \in RowsOf(p)}
        /\ Cardinality(RowsOf(p)) = NumMovies

====
